---- MODULE Spec2Model ----
(***************************************************************************)
(* The pixel-diff vision service (DiffVision, src/src/models/pixel_diff.py) *)
(* as a state machine.  The state is the fields of one DiffVision instance  *)
(* plus the configuration the host applied last and a record of the last    *)
(* call with its outcome.  Every public method is one atomic action: the    *)
(* async methods contain no await before their last statement.              *)
(***************************************************************************)
EXTENDS Integers, Sequences, FiniteSets, TLC

(* ------------------------------ bounds --------------------------------- *)
MaxCapacity == 2
MaxCount == 1

(* --------------------------- Python values ----------------------------- *)
\* A Python value with its type: numbers are the rational n/d, strings use s.
PyVal(t, n, d, s) == [t |-> t, n |-> n, d |-> d, s |-> s]
Absent == PyVal("absent", 0, 1, "")
PyInt(i) == PyVal("int", i, 1, "")
PyFloat(n, d) == PyVal("float", n, d, "")
PyStr(s) == PyVal("str", 0, 1, s)
PyList(len) == PyVal("list", len, 1, "")

Rat(n, d) == [n |-> n, d |-> d]
RatLess(a, b) == a.n * b.d < b.n * a.d
RatLeq(a, b) == a.n * b.d <= b.n * a.d

\* Python's  left >= right : defined between numbers, a TypeError between an
\* int and a list.
PyGe(left, right) ==
    IF left.t \in {"int", "float"} /\ right.t \in {"int", "float"}
    THEN (IF RatLeq(Rat(right.n, right.d), Rat(left.n, left.d)) THEN "True" ELSE "False")
    ELSE "TypeError"

(* ------------------------------ images --------------------------------- *)
\* Decoded images are single-channel rasters of h rows and w columns, px in
\* row-major order.  Undecodable stands for a buffer Image.open rejects.
Samples == {0, 51, 255}
Shapes == {<<1, 1>>, <<1, 2>>}
SeqsOfLen(S, k) == [1..k -> S]
Images == UNION {{[h |-> sh[1], w |-> sh[2], px |-> p] : p \in SeqsOfLen(Samples, sh[1] * sh[2])} : sh \in Shapes}
Undecodable == [h |-> 0, w |-> 0, px |-> <<>>]
Buffers == Images \cup {Undecodable}

Abs(x) == IF x < 0 THEN -x ELSE x

RECURSIVE SumSeq(_)
SumSeq(s) == IF s = <<>> THEN 0 ELSE Head(s) + SumSeq(Tail(s))

\* Image.fromarray(img).resize((w, h)): each output sample is the rounded
\* mean of the block of source samples it covers (what the library's
\* convolution-based reduction yields for the 2:1 reductions in Shapes).
resize(img, w, h) ==
    LET rowLo(r) == (((r - 1) * img.h) \div h) + 1
        rowHi(r) == IF (r * img.h) \div h < rowLo(r) THEN rowLo(r) ELSE (r * img.h) \div h
        colLo(c) == (((c - 1) * img.w) \div w) + 1
        colHi(c) == IF (c * img.w) \div w < colLo(c) THEN colLo(c) ELSE (c * img.w) \div w
        block(r, c) == [k \in 1..((rowHi(r) - rowLo(r) + 1) * (colHi(c) - colLo(c) + 1)) |->
                          LET bw == colHi(c) - colLo(c) + 1
                              rr == rowLo(r) + ((k - 1) \div bw)
                              cc == colLo(c) + ((k - 1) % bw)
                          IN img.px[(rr - 1) * img.w + cc]]
        mean(r, c) == (2 * SumSeq(block(r, c)) + Len(block(r, c))) \div (2 * Len(block(r, c)))
    IN [h |-> h, w |-> w,
        px |-> [k \in 1..(h * w) |-> mean(((k - 1) \div w) + 1, ((k - 1) % w) + 1)]]

\* The subtraction done on the unsigned 8-bit samples, without astype(float).
_calculate_image_diff_uint8(img1, img2) ==
    LET differ == <<img1.h, img1.w>> # <<img2.h, img2.w>>
        a == IF differ /\ img1.h * img1.w > img2.h * img2.w
             THEN resize(img1, img2.w, img2.h) ELSE img1
        b == IF differ /\ ~(img1.h * img1.w > img2.h * img2.w)
             THEN resize(img2, img1.w, img1.h) ELSE img2
        total == SumSeq([k \in 1..Len(a.px) |-> (a.px[k] - b.px[k]) % 256])
    IN Rat(total, 255 * Len(a.px))

\* _calculate_image_diff: the mean absolute sample difference over 255, as
\* the rational  total / (255 * samples).
_calculate_image_diff(img1, img2) ==
    LET differ == <<img1.h, img1.w>> # <<img2.h, img2.w>>
        a == IF differ /\ img1.h * img1.w > img2.h * img2.w
             THEN resize(img1, img2.w, img2.h) ELSE img1
        b == IF differ /\ ~(img1.h * img1.w > img2.h * img2.w)
             THEN resize(img2, img1.w, img1.h) ELSE img2
        total == SumSeq([k \in 1..Len(a.px) |-> Abs(a.px[k] - b.px[k])])
    IN Rat(total, 255 * Len(a.px))

(* --------------------------- configuration ----------------------------- *)
CameraNames == {"cam1", "cam2"}
NoCamera == "None"

ImageMemoriesValues == {Absent, PyStr("2"), PyFloat(2, 1)} \cup {PyInt(i) : i \in 0..MaxCapacity}
InputCameraValues == {Absent, PyInt(1)} \cup {PyStr(c) : c \in CameraNames}
RequiredDiffValues == {Absent, PyStr("0.5"), PyInt(0), PyFloat(1, 1), PyInt(2),
                       PyFloat(3, 2), PyFloat(-1, 2)}
Configs == [image_memories : ImageMemoriesValues,
            input_camera : InputCameraValues,
            required_diff : RequiredDiffValues]
NoConfig == [image_memories |-> Absent, input_camera |-> Absent, required_diff |-> Absent]

DefaultRequiredDiff == Rat(1, 5)

(* ------------------------- calls and outcomes -------------------------- *)
CommandKeys == {"targeted_memory_erasure", "do_nothing"}
NoCall == [op |-> "__init__", image |-> Undecodable, other |-> Undecodable, count |-> 0,
           cfg |-> NoConfig, deps |-> {}, command |-> {}]
NoResult == [outcome |-> "return", exc |-> "", message |-> "", detections |-> <<>>,
             status |-> "", deps |-> <<>>, diff |-> Rat(0, 1)]
Return(dets) == [NoResult EXCEPT !.detections = dets]
Raise(exc, msg) == [NoResult EXCEPT !.outcome = "raise", !.exc = exc, !.message = msg]
Detection == [confidence |-> Rat(1, 1), class_name |-> "significant_change"]

VARIABLES image_memories, required_diff, input_camera, config, call, result, pre
vars == <<image_memories, required_diff, input_camera, config, call, result, pre>>

\* The instance's fields as one record, and the snapshot kept in pre: the
\* fields and the applied configuration as they were when the last call began.
Self == [image_memories |-> image_memories, required_diff |-> required_diff,
         input_camera |-> input_camera]
Snapshot == [image_memories |-> image_memories, required_diff |-> required_diff,
             input_camera |-> input_camera, config |-> config]

(* ------------------------------ methods -------------------------------- *)
\* Each method maps the instance (and its arguments) to the instance after the
\* call and the call's outcome.
Outcome(self, res) == [self |-> self, result |-> res]

\* image_memories checked against 0 instead of 1.
validate_config_zero(cfg) ==
    IF cfg.image_memories.t = "absent"
    THEN Raise("ValueError", "image_memories is required")
    ELSE IF cfg.image_memories.t # "int" \/ cfg.image_memories.n < 0
    THEN Raise("ValueError", "image_memories must be a positive integer")
    ELSE IF cfg.input_camera.t = "absent"
    THEN Raise("ValueError", "input_camera is required")
    ELSE IF cfg.input_camera.t # "str"
    THEN Raise("ValueError", "input_camera must be a string")
    ELSE IF cfg.required_diff.t # "absent" /\ cfg.required_diff.t \notin {"int", "float"}
    THEN Raise("ValueError", "required_diff must be a number")
    ELSE IF cfg.required_diff.t # "absent"
            /\ ~(RatLeq(Rat(0, 1), Rat(cfg.required_diff.n, cfg.required_diff.d))
                 /\ RatLeq(Rat(cfg.required_diff.n, cfg.required_diff.d), Rat(1, 1)))
    THEN Raise("ValueError", "required_diff must be between 0 and 1")
    ELSE [NoResult EXCEPT !.deps = <<cfg.input_camera.s>>]

\* The range check on required_diff left out.
validate_config_norange(cfg) ==
    IF cfg.image_memories.t = "absent"
    THEN Raise("ValueError", "image_memories is required")
    ELSE IF cfg.image_memories.t # "int" \/ cfg.image_memories.n < 1
    THEN Raise("ValueError", "image_memories must be a positive integer")
    ELSE IF cfg.input_camera.t = "absent"
    THEN Raise("ValueError", "input_camera is required")
    ELSE IF cfg.input_camera.t # "str"
    THEN Raise("ValueError", "input_camera must be a string")
    ELSE IF cfg.required_diff.t # "absent" /\ cfg.required_diff.t \notin {"int", "float"}
    THEN Raise("ValueError", "required_diff must be a number")
    ELSE [NoResult EXCEPT !.deps = <<cfg.input_camera.s>>]

validate_config(cfg) ==
    IF cfg.image_memories.t = "absent"
    THEN Raise("ValueError", "image_memories is required")
    ELSE IF cfg.image_memories.t # "int" \/ cfg.image_memories.n < 1
    THEN Raise("ValueError", "image_memories must be a positive integer")
    ELSE IF cfg.input_camera.t = "absent"
    THEN Raise("ValueError", "input_camera is required")
    ELSE IF cfg.input_camera.t # "str"
    THEN Raise("ValueError", "input_camera must be a string")
    ELSE IF cfg.required_diff.t # "absent" /\ cfg.required_diff.t \notin {"int", "float"}
    THEN Raise("ValueError", "required_diff must be a number")
    ELSE IF cfg.required_diff.t # "absent"
            /\ ~(RatLeq(Rat(0, 1), Rat(cfg.required_diff.n, cfg.required_diff.d))
                 /\ RatLeq(Rat(cfg.required_diff.n, cfg.required_diff.d), Rat(1, 1)))
    THEN Raise("ValueError", "required_diff must be between 0 and 1")
    ELSE [NoResult EXCEPT !.deps = <<cfg.input_camera.s>>]

\* Camera.from_robot is taken to hand back the dependency as a Camera, as the
\* comment on that line says.
reconfigure(self, cfg, dependencies) ==
    IF cfg.input_camera.s \notin dependencies
    THEN Outcome(self, Raise("ValueError", "Input camera not found in dependencies"))
    ELSE Outcome([image_memories |-> <<>>,
                  required_diff |-> IF cfg.required_diff.t # "absent"
                                    THEN Rat(cfg.required_diff.n, cfg.required_diff.d)
                                    ELSE DefaultRequiredDiff,
                  input_camera |-> cfg.input_camera.s],
                 NoResult)

camera_not_set_never(camera) == FALSE

\* not self.input_camera
camera_not_set(camera) == camera = NoCamera

decodable_always(buffer) == TRUE

\* Image.open / np.array succeed on the buffer.
decodable(buffer) == buffer # Undecodable

memories_empty_never(memories) == FALSE

\* not self.image_memories
memories_empty(memories) == memories = <<>>

too_similar_reversed(diff, required) == RatLess(required, diff)

\* diff < self.required_diff
too_similar(diff, required) == RatLess(diff, required)

\* The loop started one memory too late.
first_similar_skip(img_array, memories, required, i) ==
    LET hits == {k \in (i + 1)..Len(memories) :
                    too_similar(_calculate_image_diff(img_array, memories[k]), required)}
    IN IF hits = {} THEN 0 ELSE CHOOSE k \in hits : \A j \in hits : k <= j

\* The loop over the memories with its break: the index of the first memory
\* the image is too similar to, 0 when it differs from all of them.
RECURSIVE first_similar(_, _, _, _)
first_similar(img_array, memories, required, i) ==
    IF i > Len(memories) THEN 0
    ELSE IF too_similar(_calculate_image_diff(img_array, memories[i]), required) THEN i
    ELSE first_similar(img_array, memories, required, i + 1)

\* The value the eviction check reads as the capacity: self.image_memories,
\* the list itself.
capacity_operand(memories) == PyList(Len(memories))

at_capacity_never(memories) == "False"

\* len(self.image_memories) >= self.image_memories
at_capacity(memories) == PyGe(PyInt(Len(memories)), capacity_operand(memories))

get_detections(self, image) ==
    IF camera_not_set(self.input_camera)
    THEN Outcome(self, Raise("RuntimeError", "Input camera not set"))
    ELSE IF ~decodable(image)
    THEN Outcome(self, Raise("UnidentifiedImageError", "cannot identify image file"))
    ELSE IF memories_empty(self.image_memories)
    THEN Outcome([self EXCEPT !.image_memories = Append(@, image)], Return(<<>>))
    ELSE IF first_similar(image, self.image_memories, self.required_diff, 1) # 0
    THEN Outcome(self, Return(<<>>))
    ELSE IF at_capacity(self.image_memories) = "TypeError"
    THEN Outcome(self, Raise("TypeError", "'>=' not supported between instances of 'int' and 'list'"))
    ELSE LET kept == IF at_capacity(self.image_memories) = "True"
                     THEN Tail(self.image_memories) ELSE self.image_memories
         IN Outcome([self EXCEPT !.image_memories = Append(kept, image)],
                    Return(<<Detection>>))

\* A requested count of 0 answered without evaluating.
get_classifications_early(self, image, count) ==
    IF count = 0 THEN Outcome(self, Return(<<>>))
    ELSE get_detections(self, image)

get_classifications(self, image, count) ==
    LET out == get_detections(self, image)
    IN IF out.result.outcome = "raise" THEN out
       ELSE Outcome(out.self,
                    Return([k \in 1..Len(out.result.detections) |->
                              [class_name |-> out.result.detections[k].class_name,
                               confidence |-> out.result.detections[k].confidence]]))

get_object_point_clouds_empty(self) == Outcome(self, Return(<<>>))

get_object_point_clouds(self) ==
    Outcome(self, Raise("NotImplementedError", "Point clouds not supported by diff vision service"))

do_command_noclear(self, command) ==
    IF "targeted_memory_erasure" \in command
    THEN Outcome(self,
                 [NoResult EXCEPT !.status = "success", !.message = "All image memories cleared"])
    ELSE Outcome(self, [NoResult EXCEPT !.status = "error", !.message = "Unknown command"])

do_command_reset(self, command) ==
    IF "targeted_memory_erasure" \in command
    THEN Outcome([self EXCEPT !.image_memories = <<>>, !.required_diff = DefaultRequiredDiff],
                 [NoResult EXCEPT !.status = "success", !.message = "All image memories cleared"])
    ELSE Outcome(self, [NoResult EXCEPT !.status = "error", !.message = "Unknown command"])

\* Any non-empty command clears.
do_command_any(self, command) ==
    IF command # {}
    THEN Outcome([self EXCEPT !.image_memories = <<>>],
                 [NoResult EXCEPT !.status = "success", !.message = "All image memories cleared"])
    ELSE Outcome(self, [NoResult EXCEPT !.status = "error", !.message = "Unknown command"])

do_command(self, command) ==
    IF "targeted_memory_erasure" \in command
    THEN Outcome([self EXCEPT !.image_memories = <<>>],
                 [NoResult EXCEPT !.status = "success", !.message = "All image memories cleared"])
    ELSE Outcome(self, [NoResult EXCEPT !.status = "error", !.message = "Unknown command"])

get_geometries(self) == Outcome(self, Raise("NotImplementedError", ""))

(* ------------------------------ actions -------------------------------- *)
\* __init__
Init ==
    /\ image_memories = <<>>
    /\ required_diff = DefaultRequiredDiff
    /\ input_camera = NoCamera
    /\ config = NoConfig
    /\ call = NoCall
    /\ result = NoResult
    /\ pre = [image_memories |-> <<>>, required_diff |-> DefaultRequiredDiff,
              input_camera |-> NoCamera, config |-> NoConfig]

Apply(out, c) ==
    /\ image_memories' = out.self.image_memories
    /\ required_diff' = out.self.required_diff
    /\ input_camera' = out.self.input_camera
    /\ result' = out.result
    /\ call' = c
    /\ pre' = Snapshot

\* The host reconfigures only with a configuration validate_config accepted.
Reconfigure ==
    \E cfg \in Configs, dependencies \in SUBSET CameraNames :
        /\ validate_config(cfg).outcome = "return"
        /\ Apply(reconfigure(Self, cfg, dependencies),
                 [NoCall EXCEPT !.op = "reconfigure", !.cfg = cfg, !.deps = dependencies])
        /\ config' = IF reconfigure(Self, cfg, dependencies).result.outcome = "return"
                     THEN cfg ELSE config

GetDetections ==
    \E image \in Buffers :
        /\ Apply(get_detections(Self, image),
                 [NoCall EXCEPT !.op = "get_detections", !.image = image])
        /\ UNCHANGED config

GetClassifications ==
    \E image \in Buffers, count \in 0..MaxCount :
        /\ Apply(get_classifications(Self, image, count),
                 [NoCall EXCEPT !.op = "get_classifications", !.image = image, !.count = count])
        /\ UNCHANGED config

GetObjectPointClouds ==
    /\ Apply(get_object_point_clouds(Self), [NoCall EXCEPT !.op = "get_object_point_clouds"])
    /\ UNCHANGED config

DoCommand ==
    \E command \in SUBSET CommandKeys :
        /\ Apply(do_command(Self, command),
                 [NoCall EXCEPT !.op = "do_command", !.command = command])
        /\ UNCHANGED config

GetGeometries ==
    /\ Apply(get_geometries(Self), [NoCall EXCEPT !.op = "get_geometries"])
    /\ UNCHANGED config

\* validate_config is a classmethod: it reads no field of the instance.
ValidateConfig ==
    \E cfg \in Configs :
        /\ Apply(Outcome(Self, validate_config(cfg)),
                 [NoCall EXCEPT !.op = "validate_config", !.cfg = cfg])
        /\ UNCHANGED config

\* _calculate_image_diff reads no field of the instance.
CalculateImageDiff ==
    \E img1 \in Images, img2 \in Images :
        /\ Apply(Outcome(Self, [NoResult EXCEPT !.diff = _calculate_image_diff(img1, img2)]),
                 [NoCall EXCEPT !.op = "_calculate_image_diff", !.image = img1, !.other = img2])
        /\ UNCHANGED config

Next ==
    \/ Reconfigure
    \/ GetDetections
    \/ GetClassifications
    \/ GetObjectPointClouds
    \/ DoCommand
    \/ GetGeometries

Spec == Init /\ [][Next]_vars

\* The two functions that read no field, applied to every input of the bounded
\* sets on a freshly constructed instance.
NextValidate == ValidateConfig
SpecValidate == Init /\ [][NextValidate]_vars

NextDiff == CalculateImageDiff
SpecDiff == Init /\ [][NextDiff]_vars

(* ------------------------------ properties ----------------------------- *)
\* The last call was an evaluation (get_detections or get_classifications),
\* made with an image source configured and a buffer that decodes.
Evaluated == call.op \in {"get_detections", "get_classifications"}
ValidEvaluation == Evaluated /\ pre.input_camera # NoCamera /\ call.image # Undecodable
Cleared == call.op = "do_command" /\ "targeted_memory_erasure" \in call.command

\* The image differs from every memory by at least the threshold.
DifferentFromAll(image, memories, threshold) ==
    \A i \in 1..Len(memories) :
        ~RatLess(_calculate_image_diff(image, memories[i]), threshold)

FrameKept ==
    /\ image_memories = pre.image_memories
    /\ required_diff = pre.required_diff
    /\ input_camera = pre.input_camera
    /\ config = pre.config

\* C1: the number of stored images never exceeds the configured image_memories
\* value, and no image is stored before a configuration is applied.
CapacityBound ==
    /\ config = NoConfig => image_memories = <<>>
    /\ config # NoConfig =>
          /\ 0 <= Len(image_memories)
          /\ Len(image_memories) <= config.image_memories.n

\* An evaluation of an image that differs from every memory, on a memory that
\* already holds capacity images, has completed within the bound.
CapacityBoundWitness ==
    /\ ValidEvaluation
    /\ Len(pre.image_memories) = pre.config.image_memories.n
    /\ DifferentFromAll(call.image, pre.image_memories, pre.required_diff)
    /\ Len(image_memories) = config.image_memories.n

\* C2: an accepted image is appended as the newest; the oldest image is evicted
\* first exactly when the memory already held capacity images.
FifoEviction ==
    (/\ ValidEvaluation
     /\ pre.image_memories # <<>>
     /\ DifferentFromAll(call.image, pre.image_memories, pre.required_diff))
    => image_memories =
         Append(IF Len(pre.image_memories) >= pre.config.image_memories.n
                THEN Tail(pre.image_memories) ELSE pre.image_memories,
                call.image)

\* C3: on a non-empty memory an evaluation returns the single detection
\* significant_change exactly when the image differs from every memory by at
\* least the threshold, and an empty list otherwise.
DecisionRule ==
    (ValidEvaluation /\ pre.image_memories # <<>>)
    => /\ result.outcome = "return"
       /\ Len(result.detections) <= 1
       /\ result.detections = <<Detection>>
            <=> DifferentFromAll(call.image, pre.image_memories, pre.required_diff)

\* C4: an evaluation on an empty memory returns no detection and leaves the
\* memory holding exactly the evaluated image.
Bootstrap ==
    (ValidEvaluation /\ pre.image_memories = <<>>)
    => /\ result = Return(<<>>)
       /\ image_memories = <<call.image>>
       /\ required_diff = pre.required_diff
       /\ input_camera = pre.input_camera

BootstrapWitness ==
    /\ ValidEvaluation
    /\ pre.image_memories = <<>>
    /\ image_memories = <<call.image>>
    /\ result.outcome = "return"

\* C5: an evaluation with an image source and a decodable image returns; the
\* only errors an evaluation raises are the decode error and the not-ready
\* error.
EvaluateTotal ==
    /\ ValidEvaluation => result.outcome = "return"
    /\ (Evaluated /\ result.outcome = "raise")
          => result.exc \in {"UnidentifiedImageError", "RuntimeError"}

\* C6: an evaluation of an image closer than the threshold to some memory
\* returns no detection, raises nothing and changes no field.
NotDifferentFrame ==
    (/\ ValidEvaluation
     /\ \E i \in 1..Len(pre.image_memories) :
            RatLess(_calculate_image_diff(call.image, pre.image_memories[i]), pre.required_diff))
    => /\ result = Return(<<>>)
       /\ FrameKept

NotDifferentWitness ==
    /\ ValidEvaluation
    /\ Len(pre.image_memories) = 1
    /\ call.image # pre.image_memories[1]
    /\ RatLess(_calculate_image_diff(call.image, pre.image_memories[1]), pre.required_diff)
    /\ image_memories = pre.image_memories
    /\ result = Return(<<>>)

\* C7: a successful reconfigure empties the memory and leaves the engine
\* holding the given threshold (0.2 when absent) and the given capacity as the
\* value evaluations compare the memory length with.
ConfigureHardReset ==
    (call.op = "reconfigure" /\ result.outcome = "return")
    => /\ image_memories = <<>>
       /\ required_diff = IF call.cfg.required_diff = Absent THEN Rat(1, 5)
                          ELSE Rat(call.cfg.required_diff.n, call.cfg.required_diff.d)
       /\ capacity_operand(image_memories) = call.cfg.image_memories

\* C8: the clear command always succeeds and leaves the memory empty; a second
\* clear right after a clear changes no field and gives the same response.
IdempotentClear ==
    /\ [](Cleared => /\ result.outcome = "return"
                     /\ result.status = "success"
                     /\ image_memories = <<>>)
    /\ [][(Cleared /\ Cleared')
            => /\ image_memories' = image_memories
               /\ required_diff' = required_diff
               /\ input_camera' = input_camera
               /\ config' = config
               /\ result' = result]_vars

\* A clear of a memory that was already empty.
IdempotentClearWitness ==
    /\ Cleared
    /\ pre.image_memories = <<>>
    /\ pre.input_camera # NoCamera
    /\ image_memories = <<>>
    /\ result.status = "success"

\* C9: the clear command changes no field but the memory, and the evaluation
\* that follows it is a bootstrap under the same configuration.
ClearFrame ==
    /\ [](Cleared => /\ required_diff = pre.required_diff
                     /\ input_camera = pre.input_camera
                     /\ config = pre.config)
    /\ [][(Cleared /\ Evaluated' /\ input_camera # NoCamera /\ call'.image # Undecodable)
            => /\ result' = Return(<<>>)
               /\ image_memories' = <<call'.image>>
               /\ required_diff' = required_diff
               /\ input_camera' = input_camera
               /\ config' = config]_vars

\* A clear of a non-empty memory under a threshold other than the default.
ClearFrameWitness ==
    /\ Cleared
    /\ pre.image_memories # <<>>
    /\ pre.required_diff # DefaultRequiredDiff
    /\ required_diff = pre.required_diff
    /\ image_memories = <<>>

\* C10: an evaluation of a buffer that does not decode raises and changes no
\* field, whatever the memory holds.
DecodeFailureFrame ==
    (Evaluated /\ call.image = Undecodable)
    => /\ result.outcome = "raise"
       /\ FrameKept

DecodeFailureWitness ==
    /\ Evaluated
    /\ call.image = Undecodable
    /\ pre.input_camera # NoCamera
    /\ pre.image_memories = <<>>
    /\ result.exc = "UnidentifiedImageError"
    /\ image_memories = <<>>

\* The instance as it was when the last call began.
PreSelf == [image_memories |-> pre.image_memories, required_diff |-> pre.required_diff,
            input_camera |-> pre.input_camera]

\* C12: an evaluation of an exact copy of a stored image, under a threshold
\* above 0, has difference 0 to that image, returns no detection and leaves
\* the memory as it was.
IdenticalImage ==
    (/\ ValidEvaluation
     /\ RatLess(Rat(0, 1), pre.required_diff)
     /\ \E i \in 1..Len(pre.image_memories) : pre.image_memories[i] = call.image)
    => /\ \A i \in 1..Len(pre.image_memories) :
              pre.image_memories[i] = call.image
              => _calculate_image_diff(call.image, pre.image_memories[i]).n = 0
       /\ result = Return(<<>>)
       /\ image_memories = pre.image_memories

IdenticalImageWitness ==
    /\ ValidEvaluation
    /\ RatLess(Rat(0, 1), pre.required_diff)
    /\ pre.image_memories = <<call.image>>
    /\ image_memories = pre.image_memories
    /\ result = Return(<<>>)

\* C13: a point-cloud query and a geometry query raise the not-implemented
\* error in every state and change no field.
UnsupportedQueries ==
    call.op \in {"get_object_point_clouds", "get_geometries"}
    => /\ result.outcome = "raise"
       /\ result.exc = "NotImplementedError"
       /\ result.detections = <<>>
       /\ FrameKept

\* A point-cloud query on a configured engine whose memory is full.
UnsupportedQueriesWitness ==
    /\ call.op = "get_object_point_clouds"
    /\ pre.input_camera # NoCamera
    /\ Len(pre.image_memories) = pre.config.image_memories.n
    /\ result.exc = "NotImplementedError"

\* C14: an evaluation without an image source raises the not-ready error
\* whatever the buffer is, and stores nothing.
NotReady ==
    (Evaluated /\ pre.input_camera = NoCamera)
    => /\ result.outcome = "raise"
       /\ result.exc = "RuntimeError"
       /\ FrameKept

\* Not ready with a decodable buffer, and not ready with one that does not
\* decode: both raise the not-ready error.
NotReadyWitness ==
    /\ Evaluated
    /\ pre.input_camera = NoCamera
    /\ call.image # Undecodable
    /\ result.exc = "RuntimeError"
    /\ image_memories = <<>>

\* C15: a command without the key targeted_memory_erasure returns the error
\* status, raises nothing and changes no field.
UnknownCommand ==
    (call.op = "do_command" /\ "targeted_memory_erasure" \notin call.command)
    => /\ result.outcome = "return"
       /\ result.status = "error"
       /\ result.message = "Unknown command"
       /\ FrameKept

UnknownCommandWitness ==
    /\ call.op = "do_command"
    /\ call.command = {"do_nothing"}
    /\ pre.image_memories # <<>>
    /\ image_memories = pre.image_memories
    /\ result.status = "error"

\* C16: get_classifications leaves the fields get_detections would leave from
\* the same state and image, raises what it would raise, and returns one
\* record per detection with its label and confidence, whatever the count.
ClassifyWrapsEvaluate ==
    call.op = "get_classifications"
    => LET det == get_detections(PreSelf, call.image)
       IN /\ Self = det.self
          /\ config = pre.config
          /\ result.outcome = det.result.outcome
          /\ result.exc = det.result.exc
          /\ Len(result.detections) = Len(det.result.detections)
          /\ Len(result.detections) <= 1
          /\ \A k \in 1..Len(result.detections) :
                /\ result.detections[k].class_name = det.result.detections[k].class_name
                /\ result.detections[k].confidence = det.result.detections[k].confidence

\* A classification with count 0 that stored the first image.
ClassifyWitness ==
    /\ call.op = "get_classifications"
    /\ call.count = 0
    /\ pre.input_camera # NoCamera
    /\ pre.image_memories = <<>>
    /\ image_memories = <<call.image>>
    /\ result.outcome = "return"

\* A configuration the validation is to reject: image_memories missing, not
\* an integer or below 1; input_camera missing or not a string; required_diff
\* present and not a number or outside [0, 1].
BadCapacity(cfg) ==
    \/ cfg.image_memories.t # "int"
    \/ cfg.image_memories.n < 1
BadCamera(cfg) == cfg.input_camera.t # "str"
BadThreshold(cfg) ==
    /\ cfg.required_diff.t # "absent"
    /\ \/ cfg.required_diff.t \notin {"int", "float"}
       \/ cfg.required_diff.n < 0
       \/ cfg.required_diff.n > cfg.required_diff.d

ThresholdRange ==
    /\ 0 <= required_diff.n
    /\ required_diff.n <= required_diff.d
    /\ \A cfg \in Configs :
          ((cfg.image_memories.t = "int" /\ cfg.image_memories.n < 1)
           \/ (cfg.required_diff.t \in {"int", "float"}
               /\ (cfg.required_diff.n < 0 \/ cfg.required_diff.n > cfg.required_diff.d)))
          => /\ validate_config(cfg).outcome = "raise"
             /\ validate_config(cfg).exc = "ValueError"
             /\ config # cfg

\* A reconfigure that installed the threshold 1, the upper boundary.
ThresholdRangeWitness ==
    /\ call.op = "reconfigure"
    /\ result.outcome = "return"
    /\ call.cfg.required_diff = PyFloat(1, 1)
    /\ required_diff = Rat(1, 1)

\* C19: for two images of the same dimensions the difference is the same in
\* both orders, lies within [0, 1], and is 0 for an image and itself.
DiffSymmetric ==
    (/\ call.op = "_calculate_image_diff"
     /\ call.image.h = call.other.h
     /\ call.image.w = call.other.w)
    => LET back == _calculate_image_diff(call.other, call.image)
       IN /\ result.diff.n * back.d = back.n * result.diff.d
          /\ 0 <= result.diff.n
          /\ result.diff.n <= result.diff.d
          /\ call.image = call.other => result.diff.n = 0

\* Two different images of two samples each.
DiffSymmetricWitness ==
    /\ call.op = "_calculate_image_diff"
    /\ call.image.w = 2
    /\ call.other.w = 2
    /\ call.image # call.other
    /\ result.diff.n > 0

====
